---------------------------- MODULE Spec2Model ----------------------------
(***************************************************************************)
(* A model of server.cjs, the custom Next.js server of newrelic-pino:      *)
(*   - the log normaliser (flattenData, createLoggingFunction),            *)
(*   - the patch of the framework logger and of console,                   *)
(*   - the process fault and signal handlers,                              *)
(*   - the per-request callback handed to http.createServer.               *)
(* JavaScript runs each callback to completion: the variable cur holds the *)
(* request whose synchronous code is running (0 when the event loop is     *)
(* idle), and no other callback fires while cur # 0.                       *)
(***************************************************************************)
EXTENDS Integers, Sequences, FiniteSets, TLC

(***************************************************************************)
(* Bounds of the model.                                                    *)
(***************************************************************************)
MaxArgs == 2       \* arguments of one logging call: 0..MaxArgs
MaxReq == 1        \* requests the server receives in Spec (one more in SpecConc)
MaxFaults == 1     \* process faults raised by code outside server.cjs
MaxPatches == 2    \* applications of the logging patch to one facade

(***************************************************************************)
(* JavaScript values, as far as the normaliser tells them apart.           *)
(*   t    : the typeof / kind of the value                                 *)
(*   n, s : the number or the string of a primitive                        *)
(*   cls  : "Object", "Array" or "Error" for an object, "" otherwise       *)
(*   own  : the enumerable own properties, <<key, string value>>, in order *)
(*          (for an array: the elements, the key unused)                   *)
(*   name, message : what an Error instance inherits or holds as           *)
(*          non-enumerable properties ("" for every other value)           *)
(*   cyc  : the object refers to itself (JSON.stringify rejects it)        *)
(***************************************************************************)
Val(t, n, s, cls, own, name, message, cyc) ==
    [t |-> t, n |-> n, s |-> s, cls |-> cls, own |-> own,
     name |-> name, message |-> message, cyc |-> cyc]

Num(n) == Val("number", n, "", "", <<>>, "", "", FALSE)
Str(s) == Val("string", 0, s, "", <<>>, "", "", FALSE)
Bool(b) == Val("boolean", IF b THEN 1 ELSE 0, "", "", <<>>, "", "", FALSE)
Null == Val("null", 0, "", "", <<>>, "", "", FALSE)
Undefined == Val("undefined", 0, "", "", <<>>, "", "", FALSE)
PlainObject(own) == Val("object", 0, "", "Object", own, "", "", FALSE)
ArrayOf(own) == Val("object", 0, "", "Array", own, "", "", FALSE)
NativeError(name, message) == Val("object", 0, "", "Error", <<>>, name, message, FALSE)
Cyclic(v) == [v EXCEPT !.cyc = TRUE]

\* The values the logging calls of the model are made with.
Values ==
    { Num(1), Str("ready"), Bool(TRUE), Null, Undefined,
      PlainObject(<< <<"k", "v">> >>),
      ArrayOf(<< <<"0", "a">> >>),
      NativeError("Error", "boom"),
      NativeError("TypeError", ""),
      PlainObject(<< <<"name", "E">>, <<"message", "m">> >>),
      PlainObject(<< <<"name", "E">> >>),
      Cyclic(PlainObject(<< <<"k", "v">> >>)) }

\* typeof value === 'object' && value !== null
IsObject(v) == v.t = "object"

\* key in value, for an object
HasKey(v, key) ==
    \/ \E i \in 1..Len(v.own) : v.cls # "Array" /\ v.own[i][1] = key
    \/ v.cls = "Error" /\ key \in {"name", "message"}

\* The value of an own enumerable property ("" when there is none).
RECURSIVE OwnValue(_, _, _)
OwnValue(own, key, i) ==
    IF i > Len(own) THEN ""
    ELSE IF own[i][1] = key THEN own[i][2]
    ELSE OwnValue(own, key, i + 1)

(***************************************************************************)
(* JSON.stringify(value, undefined, 2) of an object: the text, or a        *)
(* TypeError when the object is cyclic.  An Error instance has no          *)
(* enumerable own property of its own, so its text is "{}".                *)
(***************************************************************************)
Quoted(s) == "\"" \o s \o "\""

RECURSIVE JsonMembers(_, _, _)
JsonMembers(own, isArray, i) ==
    IF i > Len(own) THEN ""
    ELSE "\n  "
         \o (IF isArray THEN "" ELSE Quoted(own[i][1]) \o ": ")
         \o Quoted(own[i][2])
         \o (IF i < Len(own) THEN "," ELSE "\n")
         \o JsonMembers(own, isArray, i + 1)

JsonStringify(v) ==
    IF v.cyc THEN [threw |-> TRUE, val |-> Undefined]
    ELSE [threw |-> FALSE,
          val |-> Str(IF v.cls = "Array"
                      THEN "[" \o JsonMembers(v.own, TRUE, 1) \o "]"
                      ELSE "{" \o JsonMembers(v.own, FALSE, 1) \o "}")]

\* flattenData of server.cjs: the result, or the exception JSON.stringify throws.
flattenData(value) ==
    IF IsObject(value) THEN JsonStringify(value)
    ELSE [threw |-> FALSE, val |-> value]


(***************************************************************************)
(* value.toString(): Error.prototype.toString for an Error instance,       *)
(* Object.prototype.toString for any other object, Array.prototype.join    *)
(* for an array.                                                           *)
(***************************************************************************)
ErrorToString(name, message) ==
    IF name = "" THEN message
    ELSE IF message = "" THEN name
    ELSE name \o ": " \o message

RECURSIVE JoinElements(_, _)
JoinElements(own, i) ==
    IF i > Len(own) THEN ""
    ELSE own[i][2] \o (IF i < Len(own) THEN "," ELSE "") \o JoinElements(own, i + 1)

ToStringOf(v) ==
    IF v.cls = "Error" THEN ErrorToString(v.name, v.message)
    ELSE IF v.cls = "Array" THEN JoinElements(v.own, 1)
    ELSE "[object Object]"

(***************************************************************************)
(* The pino logger: its level methods, and the method a patched entry      *)
(* point is bound to, (logger[levelName] || logger.info).                  *)
(***************************************************************************)
PinoLevels == {"trace", "debug", "info", "warn", "error", "fatal"}

baseLoggingFunction(levelName) ==
    IF levelName \in PinoLevels THEN levelName ELSE "info"

\* The entry points the patch replaces on console.
loggingProperties == <<"debug", "log", "info", "warn", "error">>

ConsoleEntries == { loggingProperties[i] : i \in 1..Len(loggingProperties) }

(***************************************************************************)
(* The closure createLoggingFunction returns, applied to args.             *)
(***************************************************************************)
\* the predicate of args.find: an Error instance, or an object with name and message
IsErrorEntry(entry) ==
    \/ IsObject(entry) /\ entry.cls = "Error"
    \/ IsObject(entry) /\ HasKey(entry, "name") /\ HasKey(entry, "message")

\* args.find(...): the index of the first match, 0 when there is none
RECURSIVE FindError(_, _)
FindError(args, i) ==
    IF i > Len(args) THEN 0
    ELSE IF IsErrorEntry(args[i]) THEN i
    ELSE FindError(args, i + 1)

\* args.map(part => flattenData(part)), and whether one of the calls threw
MapFlatten(args) == [i \in 1..Len(args) |-> flattenData(args[i]).val]

MapThrows(args) == \E i \in 1..Len(args) : flattenData(args[i]).threw

NoOutput ==
    [state |-> "pending", level |-> "", hasData |-> FALSE, dataArgs |-> <<>>,
     flattenedError |-> Undefined, messages |-> <<>>]

createLoggingFunction(levelName, args) ==
    LET e == FindError(args, 1)
        nativeError == IF e = 0 THEN Undefined ELSE args[e]
        threw == \/ e # 0 /\ flattenData(nativeError).threw
                 \/ Len(args) > 1 /\ MapThrows(args)
    IN  IF threw
        THEN [NoOutput EXCEPT !.state = "threw"]
        ELSE [state |-> "logged",
              level |-> baseLoggingFunction(levelName),
              hasData |-> Len(args) > 1,
              dataArgs |-> IF Len(args) > 1 THEN MapFlatten(args) ELSE <<>>,
              flattenedError |-> IF e # 0 THEN flattenData(nativeError).val
                                 ELSE Undefined,
              messages |-> IF e # 0 /\ Len(args) = 1
                           THEN << Str(ToStringOf(nativeError)) >>
                           ELSE args]

(***************************************************************************)
(* The state.                                                              *)
(***************************************************************************)
VARIABLES
    call,        \* a call of an entry point: [facade, entry, args]
    out,         \* what that call handed to the logger (NoOutput before)
    passes,      \* the wrapper closures that call ran through
    patchesAtCall, \* the times the call's facade had been patched when it was made
    facade,      \* per facade and entry name: what the slot holds
    installs,    \* per facade, process event and startup step: the times it was
                 \* patched, given a listener, or run
    env,         \* [manualSig, newrelicBound]: NEXT_MANUAL_SIG_HANDLE is set; the
                 \* free identifier newrelic resolves to a binding
    boot,        \* the position of the top-level code of server.cjs
    proc,        \* [state, code, by]: the process, its exit status and who ended it
    sigHandlers, \* the signals a process.on listener is registered for
    faultHandlers, \* the fault events a process.on listener is registered for
    slog,        \* the lines the top-level code logged, in order
    faults,      \* the faults raised so far by code outside server.cjs
    delivered,   \* per fault event type: the events emitted
    logged,      \* per fault event type: the error records its listener logged
    cur,         \* the request whose synchronous code is running, 0 for none
    pc,          \* per request: the position of the createServer callback
    req,         \* per request: [url, method] ("" is an absent url)
    ctx,         \* per request: [requestId, reqStart, route] (0 before line 117, ""
                 \* before setTransactionName was given the route)
    res,         \* per request: the ServerResponse
    caught,      \* per request: the error the catch block received ("" for none)
    handled,     \* per request: the calls of handle(req, res, parsedUrl)
    rlog         \* per request: the lines the callback and its listener logged

logVars == <<call, out, passes, patchesAtCall, facade>>
procVars == <<env, installs, boot, proc, sigHandlers, faultHandlers, slog, faults, delivered, logged>>
bootVars == <<env, installs, boot, sigHandlers, faultHandlers, slog, faults>>
reqVars == <<cur, pc, req, ctx, res, caught, handled, rlog>>
vars == <<call, out, passes, patchesAtCall, facade, installs, env, boot, proc, sigHandlers, faultHandlers, slog, faults,
          delivered, logged, cur, pc, req, ctx, res, caught, handled, rlog>>

\* the requests of a run: Spec takes the first MaxReq of them, SpecConc one more
Req == 1..(MaxReq + 1)
Served == 1..MaxReq
Signals == {"SIGTERM", "SIGINT"}
FaultTypes == {"unhandledRejection", "uncaughtException"}
\* status codes the external handler answers with (node accepts 100..999)
StatusCodes == {200, 400, 599, 600}
FallbackBody == "Internal Server Error"
NoUrlError == "No URL to process"

RECURSIVE SeqsUpTo(_, _)
SeqsUpTo(S, n) ==
    IF n = 0 THEN { <<>> }
    ELSE LET shorter == SeqsUpTo(S, n - 1)
         IN  shorter \cup { Append(q, x) : q \in { t \in shorter : Len(t) = n - 1 }, x \in S }

\* a fresh ServerResponse: statusCode defaults to 200, nothing sent
NewResponse ==
    [statusCode |-> 200, headersSent |-> FALSE, sentStatus |-> 0, body |-> <<>>,
     finished |-> FALSE, finishPending |-> FALSE, finishEmitted |-> FALSE,
     listener |-> FALSE, fallbackOn |-> "none", errorEmitted |-> FALSE]

(***************************************************************************)
(* The two facades the patch is applied to: the framework logger module    *)
(* (line 14) and global.console.  A slot holds a function of the facade's  *)
(* own, a wrapper createLoggingFunction returned, a value that is not a    *)
(* function, or nothing.                                                   *)
(*   level : the levelName a wrapper closes over                           *)
(*   wraps : the wrapper closures a call of the slot runs through          *)
(*   orig  : what the slot held before any patch                           *)
(***************************************************************************)
FacadeNames == {"nextLogger", "console"}

\* the exports of next/dist/build/output/log: the prefixes object and the
\* logging functions
NextEntries == {"prefixes", "wait", "error", "warn", "ready", "info", "trace"}

\* console: the five properties of line 76, and one more method
ConsoleNames == ConsoleEntries \cup {"table"}

Slot(kind) == [kind |-> kind, level |-> "", wraps |-> 0, orig |-> kind]

Callable(slot) == slot.kind \in {"function", "wrapper"}

DefaultNextLogger ==
    [n \in NextEntries |-> Slot(IF n = "prefixes" THEN "value" ELSE "function")]

DefaultConsole == [n \in ConsoleNames |-> Slot("function")]

DefaultFacades == [nextLogger |-> DefaultNextLogger, console |-> DefaultConsole]

\* console as code loaded before server.cjs may have left it: one of the five
\* properties deleted or set to a value that is not a function
ConsoleStates ==
    { [DefaultConsole EXCEPT ![n] = Slot(k)] :
        n \in ConsoleEntries, k \in {"function", "missing", "value"} }

\* lines 41-43, with the closure bound to the function the slot held
PatchedSlotWrapsOld(levelName, old) ==
    [kind |-> "wrapper", level |-> levelName,
     wraps |-> IF old.kind = "wrapper" THEN old.wraps + 1 ELSE 1, orig |-> old.orig]

\* lines 41-43, 71, 78: createLoggingFunction(levelName) is a fresh closure
\* over the pino logger's own function, whatever the slot held
PatchedSlot(levelName, old) ==
    [kind |-> "wrapper", level |-> levelName, wraps |-> 1, orig |-> old.orig]

\* lines 69-73: Object.entries lists the slots that hold something; the
\* function-valued ones are replaced
PatchNextLogger(entries) ==
    [n \in DOMAIN entries |->
        IF Callable(entries[n]) THEN PatchedSlot(n, entries[n]) ELSE entries[n]]

\* lines 76-79: the five properties are assigned, whatever they held
PatchConsole(entries) ==
    [n \in DOMAIN entries |->
        IF n \in ConsoleEntries THEN PatchedSlot(n, entries[n]) ELSE entries[n]]

Patched(f, entries) ==
    IF f = "console" THEN PatchConsole(entries) ELSE PatchNextLogger(entries)

\* what installs counts
InstallNames == FacadeNames \cup FaultTypes \cup Signals \cup {"prepared", "listen"}

\* the entry points application code calls
CallTargets ==
    UNION { { <<f, n>> : n \in { m \in DOMAIN DefaultFacades[f] :
                                   Callable(DefaultFacades[f][m]) } } :
            f \in FacadeNames }

CallsWith(argLists) ==
    { [facade |-> t[1], entry |-> t[2], args |-> a] : t \in CallTargets, a \in argLists }

ServerInit ==
    /\ env \in [manualSig : BOOLEAN, newrelicBound : BOOLEAN]
    /\ installs = [n \in InstallNames |-> 0]
    /\ boot = "patch"
    /\ proc = [state |-> "running", code |-> 0, by |-> "none"]
    /\ sigHandlers = {}
    /\ faultHandlers = {}
    /\ slog = <<>>
    /\ faults = 0
    /\ delivered = [t \in FaultTypes |-> 0]
    /\ logged = [t \in FaultTypes |-> 0]
    /\ cur = 0
    /\ pc = [r \in Req |-> "idle"]
    /\ req = [r \in Req |-> [url |-> "", method |-> ""]]
    /\ ctx = [r \in Req |-> [requestId |-> 0, reqStart |-> 0, route |-> ""]]
    /\ res = [r \in Req |-> NewResponse]
    /\ caught = [r \in Req |-> ""]
    /\ handled = [r \in Req |-> 0]
    /\ rlog = [r \in Req |-> <<>>]

Init ==
    /\ ServerInit
    /\ call = [facade |-> "console", entry |-> "log", args |-> <<>>]
    /\ out = NoOutput
    /\ passes = 0
    /\ patchesAtCall = 0
    /\ facade = DefaultFacades

(***************************************************************************)
(* The top-level code of server.cjs, run once, in order.  It is            *)
(* synchronous up to app.prepare(): no event is handled before that.       *)
(***************************************************************************)
Alive == proc.state = "running"

\* the event loop is free to run a callback
LoopIdle == Alive /\ cur = 0 /\ boot \in {"preparing", "binding", "listening", "failed"}

\* process.exit(code), or the runtime ending the process
Exit(code, by) == proc' = [state |-> "exited", code |-> code, by |-> by]

\* lines 68-79: the two patches
PatchLoggers ==
    /\ Alive /\ boot = "patch"
    /\ facade' = [f \in FacadeNames |-> Patched(f, facade[f])]
    /\ installs' = [n \in InstallNames |->
                      IF n \in FacadeNames THEN installs[n] + 1 ELSE installs[n]]
    /\ boot' = "faults"
    /\ UNCHANGED <<call, out, passes, patchesAtCall, env, proc, sigHandlers, faultHandlers, slog, faults,
                   delivered, logged, reqVars>>

\* lines 82-95: process.on('unhandledRejection'), process.on('uncaughtException')
RegisterFaultHandlers ==
    /\ Alive /\ boot = "faults"
    /\ faultHandlers' = faultHandlers \cup FaultTypes
    /\ installs' = [n \in InstallNames |->
                      IF n \in FaultTypes THEN installs[n] + 1 ELSE installs[n]]
    /\ boot' = "signals"
    /\ UNCHANGED <<logVars, env, proc, sigHandlers, slog, faults,
                   delivered, logged, reqVars>>

\* lines 98-99, without the test of line 97
SignalsToHandleAlways(manualSig) == Signals

\* lines 97-100
SignalsToHandle(manualSig) == IF manualSig THEN {} ELSE Signals

RegisterSignalHandlers ==
    /\ Alive /\ boot = "signals"
    /\ sigHandlers' = sigHandlers \cup SignalsToHandle(env.manualSig)
    /\ installs' = [n \in InstallNames |->
                      IF n \in SignalsToHandle(env.manualSig)
                      THEN installs[n] + 1 ELSE installs[n]]
    /\ boot' = "prepare"
    /\ UNCHANGED <<logVars, env, proc, faultHandlers, slog, faults,
                   delivered, logged, reqVars>>

\* lines 102-114, with listen called without waiting for prepare
StartPrepareListens ==
    /\ Alive /\ boot = "prepare"
    /\ slog' = Append(slog, "Running in mode")
    /\ installs' = [installs EXCEPT !["listen"] = @ + 1]
    /\ boot' = "binding"
    /\ UNCHANGED <<logVars, env, proc, sigHandlers, faultHandlers, faults,
                   delivered, logged, reqVars>>

\* lines 102-114: the mode line, next(...), app.prepare()
StartPrepare ==
    /\ Alive /\ boot = "prepare"
    /\ slog' = Append(slog, "Running in mode")
    /\ boot' = "preparing"
    /\ UNCHANGED <<logVars, env, installs, proc, sigHandlers, faultHandlers, faults,
                   delivered, logged, reqVars>>

\* lines 115-116, 146, 150: prepare resolved; createServer(...).once(...).listen(...)
PrepareResolved ==
    /\ LoopIdle /\ boot = "preparing"
    /\ installs' = [n \in InstallNames |->
                      IF n \in {"prepared", "listen"} THEN installs[n] + 1
                      ELSE installs[n]]
    /\ boot' = "binding"
    /\ UNCHANGED <<logVars, env, proc, sigHandlers, faultHandlers, slog, faults,
                   delivered, logged, reqVars>>

\* line 154: prepare rejected
PrepareRejected ==
    /\ LoopIdle /\ boot = "preparing"
    /\ slog' = Append(slog, "prepare rejected")
    /\ boot' = "failed"
    /\ UNCHANGED <<logVars, env, installs, proc, sigHandlers, faultHandlers, faults,
                   delivered, logged, reqVars>>

\* lines 150-152: the listen callback
Listening ==
    /\ LoopIdle /\ boot = "binding"
    /\ slog' = Append(slog, "Ready on")
    /\ boot' = "listening"
    /\ UNCHANGED <<logVars, env, installs, proc, sigHandlers, faultHandlers, faults,
                   delivered, logged, reqVars>>

\* lines 146-147, without the process.exit(1) of line 148
ListenErrorGoesOn ==
    /\ LoopIdle /\ boot = "binding"
    /\ \A i \in 1..Len(slog) : slog[i] # "listen error"
    /\ slog' = Append(slog, "listen error")
    /\ UNCHANGED <<logVars, env, installs, boot, proc, sigHandlers, faultHandlers,
                   faults, delivered, logged, reqVars>>

\* lines 146-149: the server's 'error' event
ListenError ==
    /\ LoopIdle /\ boot = "binding"
    /\ slog' = Append(slog, "listen error")
    /\ Exit(1, "listenError")
    /\ UNCHANGED <<logVars, env, installs, boot, sigHandlers, faultHandlers, faults,
                   delivered, logged, reqVars>>

(***************************************************************************)
(* Signals and fault events.                                               *)
(***************************************************************************)
\* lines 98-99: the listener exits with status 0; without a listener the signal
\* ends the process by its default action
Signal(sig) ==
    /\ LoopIdle
    /\ IF sig \in sigHandlers
       THEN Exit(0, "signalHandler")
       ELSE Exit(IF sig = "SIGTERM" THEN 143 ELSE 130, "signalDefault")
    /\ UNCHANGED <<logVars, env, installs, boot, sigHandlers, faultHandlers, slog, faults,
                   delivered, logged, reqVars>>

\* the errors a fault event carries
FaultErrors == { NativeError("Error", "boom"), Cyclic(NativeError("Error", "boom")) }

(***************************************************************************)
(* Lines 82-95.  The runtime emits a fault event before it runs any other  *)
(* callback; the listener flattens the error and logs one error record.    *)
(* flattenData throwing inside the unhandledRejection listener is itself   *)
(* an uncaught exception (a TypeError, which flattens); inside the         *)
(* uncaughtException listener it ends the process with status 7.  Without  *)
(* a listener the fault ends the process with status 1.                    *)
(* FaultOutcome is what one fault leads to: the events emitted, the        *)
(* records logged, and the exit status (-1: the process goes on).          *)
(***************************************************************************)
FaultListenerThrows(err) == flattenData(err).threw

FaultOutcome(type, err, handlers) ==
    IF type \notin handlers
    THEN [emitted |-> <<>>, logs |-> <<>>, exit |-> 1]
    ELSE IF ~FaultListenerThrows(err)
    THEN [emitted |-> <<type>>, logs |-> <<type>>, exit |-> -1]
    ELSE IF type = "uncaughtException"
    THEN [emitted |-> <<type>>, logs |-> <<>>, exit |-> 7]
    ELSE IF "uncaughtException" \in handlers
    THEN [emitted |-> <<type, "uncaughtException">>, logs |-> <<"uncaughtException">>,
          exit |-> -1]
    ELSE [emitted |-> <<type>>, logs |-> <<>>, exit |-> 1]

Count(seq, x) == Cardinality({ i \in 1..Len(seq) : seq[i] = x })

\* the fault, taken to its outcome
Fault(type, err) ==
    LET o == FaultOutcome(type, err, faultHandlers)
    IN  /\ delivered' = [t \in FaultTypes |-> delivered[t] + Count(o.emitted, t)]
        /\ logged' = [t \in FaultTypes |-> logged[t] + Count(o.logs, t)]
        /\ IF o.exit = -1 THEN UNCHANGED proc ELSE Exit(o.exit, "runtime")

\* code outside server.cjs leaves a rejection unhandled or an exception uncaught
RaiseFault(type, err) ==
    /\ LoopIdle
    /\ faults < MaxFaults
    /\ faults' = faults + 1
    /\ Fault(type, err)
    /\ UNCHANGED <<logVars, env, installs, boot, sigHandlers, faultHandlers, slog, reqVars>>

(***************************************************************************)
(* The createServer callback, lines 116-145, per request.                  *)
(***************************************************************************)
Urls == {"", "/about"}
Methods == {"GET"}

\* lines 117-118, 127, with the id, the start time and the request kept in
\* variables of the module that the latest request overwrites
LineSharedContext(level, kind, r, status, err) ==
    LET last == CHOOSE q \in Req :
                    pc[q] # "idle" /\ \A p \in Req : pc[p] # "idle" => p <= q
    IN  [level |-> level, kind |-> kind, id |-> ctx[last].requestId, status |-> status,
         method |-> req[last].method, url |-> req[last].url,
         start |-> ctx[last].reqStart, err |-> err]

\* a line of the request log: requestId, reqStart, req and res are those of the
\* callback's own closure
Line(level, kind, r, status, err) ==
    [level |-> level, kind |-> kind, id |-> ctx[r].requestId, status |-> status,
     method |-> req[r].method, url |-> req[r].url, start |-> ctx[r].reqStart, err |-> err]

\* the server hands a request to the callback
Accept(r, url, method) ==
    /\ LoopIdle /\ boot = "listening"
    /\ pc[r] = "idle"
    /\ \A q \in Req : q < r => pc[q] # "idle"
    /\ req' = [req EXCEPT ![r] = [url |-> url, method |-> method]]
    /\ pc' = [pc EXCEPT ![r] = "l117"]
    /\ cur' = r
    /\ UNCHANGED <<logVars, procVars, ctx, res, caught, handled, rlog>>

\* lines 117-119: requestId, reqStart, req.newrelic = newrelic.  Reading the
\* identifier throws a ReferenceError when nothing binds it: the async callback
\* rejects, and nothing handles the rejection.
Entry(r) ==
    /\ Alive /\ cur = r /\ pc[r] = "l117"
    /\ ctx' = [ctx EXCEPT ![r].requestId = r, ![r].reqStart = r]
    /\ IF env.newrelicBound
       THEN /\ pc' = [pc EXCEPT ![r] = "l121"]
            /\ UNCHANGED <<cur, proc, delivered, logged>>
       ELSE /\ pc' = [pc EXCEPT ![r] = "rejected"]
            /\ cur' = 0
            /\ Fault("unhandledRejection", NativeError("ReferenceError", "newrelic"))
    /\ UNCHANGED <<logVars, bootVars, req, res, caught, handled, rlog>>

\* line 121: res.on('finish', ...)
OnFinish(r) ==
    /\ Alive /\ cur = r /\ pc[r] = "l121"
    /\ res' = [res EXCEPT ![r].listener = TRUE]
    /\ pc' = [pc EXCEPT ![r] = "l132"]
    /\ UNCHANGED <<logVars, procVars, cur, req, ctx, caught, handled, rlog>>

\* lines 132-135: the url check and parse
CheckUrl(r) ==
    /\ Alive /\ cur = r /\ pc[r] = "l132"
    /\ IF req[r].url = ""
       THEN /\ caught' = [caught EXCEPT ![r] = NoUrlError]
            /\ pc' = [pc EXCEPT ![r] = "catch"]
       ELSE /\ pc' = [pc EXCEPT ![r] = "l137"]
            /\ UNCHANGED caught
    /\ UNCHANGED <<logVars, procVars, cur, req, ctx, res, handled, rlog>>

\* line 137: newrelic.setTransactionName(...) returns
SetTransactionName(r) ==
    /\ Alive /\ cur = r /\ pc[r] = "l137"
    /\ ctx' = [ctx EXCEPT ![r].route = req[r].url]
    /\ pc' = [pc EXCEPT ![r] = "l139"]
    /\ UNCHANGED <<logVars, procVars, cur, req, res, caught, handled, rlog>>

\* line 137: newrelic.setTransactionName(...) throws, inside the try
SetTransactionNameThrows(r) ==
    /\ Alive /\ cur = r /\ pc[r] = "l137"
    /\ caught' = [caught EXCEPT ![r] = "telemetry"]
    /\ pc' = [pc EXCEPT ![r] = "catch"]
    /\ UNCHANGED <<logVars, procVars, cur, req, ctx, res, handled, rlog>>

\* line 139: handle(req, res, parsedUrl) is called and returns its promise
Handle(r) ==
    /\ Alive /\ cur = r /\ pc[r] = "l139"
    /\ handled' = [handled EXCEPT ![r] = @ + 1]
    /\ pc' = [pc EXCEPT ![r] = "handling"]
    /\ cur' = 0
    /\ UNCHANGED <<logVars, procVars, req, ctx, res, caught, rlog>>

\* line 139: handle(req, res, parsedUrl) is called and throws
HandleThrows(r) ==
    /\ Alive /\ cur = r /\ pc[r] = "l139"
    /\ handled' = [handled EXCEPT ![r] = @ + 1]
    /\ caught' = [caught EXCEPT ![r] = "handler"]
    /\ pc' = [pc EXCEPT ![r] = "catch"]
    /\ UNCHANGED <<logVars, procVars, cur, req, ctx, res, rlog>>

(***************************************************************************)
(* The external handler, while the callback awaits it: it drives the       *)
(* response (writeHead, write, end) and settles its promise.               *)
(***************************************************************************)
\* the headers go out with the statusCode property as it is then
SendHeaders(rs) ==
    IF rs.headersSent THEN rs
    ELSE [rs EXCEPT !.headersSent = TRUE, !.sentStatus = rs.statusCode]

\* res.end(...) of a response not yet ended
EndResponse(rs) == [SendHeaders(rs) EXCEPT !.finished = TRUE, !.finishPending = TRUE]

HWriteHead(r, status) ==
    /\ LoopIdle /\ pc[r] = "handling"
    /\ ~res[r].headersSent /\ ~res[r].finished
    /\ res' = [res EXCEPT ![r] = SendHeaders([@ EXCEPT !.statusCode = status])]
    /\ UNCHANGED <<logVars, procVars, cur, pc, req, ctx, caught, handled, rlog>>

HWrite(r) ==
    /\ LoopIdle /\ pc[r] = "handling"
    /\ ~res[r].finished /\ res[r].body = <<>>
    /\ res' = [res EXCEPT ![r] = [SendHeaders(@) EXCEPT !.body = <<"partial">>]]
    /\ UNCHANGED <<logVars, procVars, cur, pc, req, ctx, caught, handled, rlog>>

HEnd(r) ==
    /\ LoopIdle /\ pc[r] = "handling"
    /\ ~res[r].finished
    /\ res' = [res EXCEPT ![r] = EndResponse(@)]
    /\ UNCHANGED <<logVars, procVars, cur, pc, req, ctx, caught, handled, rlog>>

\* the handler's promise resolves, the response driven to its end; the callback returns
HResolve(r) ==
    /\ LoopIdle /\ pc[r] = "handling"
    /\ res[r].finished
    /\ pc' = [pc EXCEPT ![r] = "returned"]
    /\ UNCHANGED <<logVars, procVars, cur, req, ctx, res, caught, handled, rlog>>

\* the handler's promise rejects: the await throws into the catch block
HReject(r) ==
    /\ LoopIdle /\ pc[r] = "handling"
    /\ caught' = [caught EXCEPT ![r] = "handler"]
    /\ pc' = [pc EXCEPT ![r] = "catch"]
    /\ cur' = r
    /\ UNCHANGED <<logVars, procVars, req, ctx, res, handled, rlog>>

(***************************************************************************)
(* The catch block and the 'finish' listener.                              *)
(***************************************************************************)
\* what the response had done when the catch block ran
SentState(rs) ==
    IF rs.finishEmitted THEN "finished"
    ELSE IF rs.finished THEN "ended"
    ELSE IF rs.headersSent THEN "headersSent"
    ELSE "unsent"

\* lines 142-143: res.statusCode = 500; res.end('Internal Server Error').
\* The assignment changes the property whatever was sent; end(chunk) writes the
\* chunk and ends the response unless it has ended already.
FallbackResponse(rs) ==
    LET marked == [rs EXCEPT !.statusCode = 500, !.fallbackOn = SentState(rs)]
    IN  IF rs.finished THEN marked
        ELSE [EndResponse(marked) EXCEPT !.body = Append(@, FallbackBody)]

\* line 141, with the catch block logging the completion line as well
CatchLinesWithCompletion(r) ==
    << Line("error", "errorPath", r, 0, caught[r]),
       Line("error", "completion", r, 500, "") >>

\* line 141: logger.error('Error occurred handling', req.url, err)
CatchLines(r) == << Line("error", "errorPath", r, 0, caught[r]) >>

\* lines 140-144.  end(chunk) on a response that has ended is a write after end:
\* the runtime reports it as an 'error' event of the response, which has no
\* listener (an uncaught exception), or drops it (older runtimes, or the
\* response destroyed by then).
Catch(r) ==
    /\ Alive /\ cur = r /\ pc[r] = "catch"
    /\ rlog' = [rlog EXCEPT ![r] = @ \o CatchLines(r)]
    /\ \E emits \in (IF res[r].finished THEN BOOLEAN ELSE {FALSE}) :
          /\ res' = [res EXCEPT ![r] = [FallbackResponse(@) EXCEPT !.errorEmitted = emits]]
          /\ IF emits
             THEN Fault("uncaughtException", NativeError("Error", "write after end"))
             ELSE UNCHANGED <<proc, delivered, logged>>
    /\ pc' = [pc EXCEPT ![r] = "returned"]
    /\ cur' = 0
    /\ UNCHANGED <<logVars, bootVars, req, ctx, caught, handled>>

\* lines 122-125, without the upper bound of line 123
logFunctionNoUpperBound(statusCode) ==
    IF statusCode >= 400 THEN "error" ELSE "debug"

\* lines 122-125
logFunction(statusCode) ==
    IF statusCode >= 400 /\ statusCode < 600 THEN "error" ELSE "debug"

\* line 121, with the listener run as soon as the headers are out
FinishDueOnHeaders(rs) == rs.headersSent /\ ~rs.finishEmitted

\* line 121: the event the listener waits for; the response emits 'finish'
\* once it has ended and its data has been handed to the socket
FinishDue(rs) == rs.finishPending

\* lines 121-129: the response has been flushed and emits 'finish'
Finish(r) ==
    /\ LoopIdle
    /\ FinishDue(res[r])
    /\ res' = [res EXCEPT ![r].finishPending = FALSE, ![r].finishEmitted = TRUE]
    /\ rlog' = [rlog EXCEPT ![r] =
                  IF res[r].listener
                  THEN Append(@, Line(logFunction(res[r].statusCode), "completion", r,
                                      res[r].statusCode, ""))
                  ELSE @]
    /\ UNCHANGED <<logVars, procVars, cur, pc, req, ctx, caught, handled>>

(***************************************************************************)
(* A call of an entry point, and the patch run on its own.                 *)
(***************************************************************************)
\* the slot's function is called: a wrapper runs lines 45-65 with the
\* levelName it closes over; a function of the facade's own hands the logger
\* nothing
LogCall ==
    LET slot == facade[call.facade][call.entry]
    IN  /\ out.state = "pending"
        /\ Callable(slot)
        /\ IF slot.kind = "wrapper"
           THEN /\ out' = createLoggingFunction(slot.level, call.args)
                /\ passes' = slot.wraps
           ELSE /\ out' = [NoOutput EXCEPT !.state = "native"]
                /\ passes' = 0
        /\ patchesAtCall' = installs[call.facade]
        /\ UNCHANGED <<call, facade, procVars, reqVars>>

\* lines 68-73 or 75-79, run on facade f (again)
ApplyPatch(f) ==
    /\ installs[f] < MaxPatches
    /\ facade' = [facade EXCEPT ![f] = Patched(f, @)]
    /\ installs' = [installs EXCEPT ![f] = @ + 1]
    /\ UNCHANGED <<call, out, passes, patchesAtCall, env, boot, proc, sigHandlers, faultHandlers,
                   slog, faults, delivered, logged, reqVars>>

(***************************************************************************)
(* The specifications.                                                     *)
(*   Spec      : the server, with the process events                       *)
(*   SpecLog   : the patch of the top-level code and one logging call      *)
(*   SpecConc  : the server with one more request in flight                *)
(*   SpecPatch : the patch run up to MaxPatches times, and one call        *)
(***************************************************************************)
Next ==
    \/ PatchLoggers
    \/ RegisterFaultHandlers
    \/ RegisterSignalHandlers
    \/ StartPrepare
    \/ PrepareResolved
    \/ PrepareRejected
    \/ Listening
    \/ ListenError
    \/ \E sig \in Signals : Signal(sig)
    \/ \E type \in FaultTypes, err \in FaultErrors : RaiseFault(type, err)
    \/ \E r \in Served, url \in Urls, method \in Methods : Accept(r, url, method)
    \/ \E r \in Req : Entry(r)
    \/ \E r \in Req : OnFinish(r)
    \/ \E r \in Req : CheckUrl(r)
    \/ \E r \in Req : SetTransactionName(r)
    \/ \E r \in Req : SetTransactionNameThrows(r)
    \/ \E r \in Req : Handle(r)
    \/ \E r \in Req : HandleThrows(r)
    \/ \E r \in Req, status \in StatusCodes : HWriteHead(r, status)
    \/ \E r \in Req : HWrite(r)
    \/ \E r \in Req : HEnd(r)
    \/ \E r \in Req : HResolve(r)
    \/ \E r \in Req : HReject(r)
    \/ \E r \in Req : Catch(r)
    \/ \E r \in Req : Finish(r)

Spec == Init /\ [][Next]_vars

InitLog ==
    /\ ServerInit
    /\ env = [manualSig |-> FALSE, newrelicBound |-> TRUE]
    /\ call \in CallsWith(SeqsUpTo(Values, MaxArgs))
    /\ out = NoOutput
    /\ passes = 0
    /\ patchesAtCall = 0
    /\ facade = DefaultFacades

NextLog == PatchLoggers \/ LogCall

SpecLog == InitLog /\ [][NextLog]_vars

\* the server with one more request in flight, and without the process events
\* (signals, faults of other code, a failing prepare or listen)
InitConc ==
    /\ Init
    /\ env = [manualSig |-> FALSE, newrelicBound |-> TRUE]

\* the status codes the handler answers with in SpecConc: one logged at debug,
\* one at error
ConcStatusCodes == { s \in StatusCodes : s <= 400 }

NextConc ==
    \/ PatchLoggers
    \/ RegisterFaultHandlers
    \/ RegisterSignalHandlers
    \/ StartPrepare
    \/ PrepareResolved
    \/ Listening
    \/ \E r \in Req, url \in Urls, method \in Methods : Accept(r, url, method)
    \/ \E r \in Req : Entry(r)
    \/ \E r \in Req : OnFinish(r)
    \/ \E r \in Req : CheckUrl(r)
    \/ \E r \in Req : SetTransactionName(r)
    \/ \E r \in Req : SetTransactionNameThrows(r)
    \/ \E r \in Req : Handle(r)
    \/ \E r \in Req : HandleThrows(r)
    \/ \E r \in Req, status \in ConcStatusCodes : HWriteHead(r, status)
    \/ \E r \in Req : HWrite(r)
    \/ \E r \in Req : HEnd(r)
    \/ \E r \in Req : HResolve(r)
    \/ \E r \in Req : HReject(r)
    \/ \E r \in Req : Catch(r)
    \/ \E r \in Req : Finish(r)

SpecConc == InitConc /\ [][NextConc]_vars

\* the arguments of the calls made around the patch
PatchArgs == SeqsUpTo({Str("a"), Cyclic(PlainObject(<<>>))}, MaxArgs)

InitPatch ==
    /\ ServerInit
    /\ env = [manualSig |-> FALSE, newrelicBound |-> TRUE]
    /\ call \in CallsWith(PatchArgs)
    /\ out = NoOutput
    /\ passes = 0
    /\ patchesAtCall = 0
    /\ facade \in { [DefaultFacades EXCEPT !.console = c] : c \in ConsoleStates }

NextPatch == (\E f \in FacadeNames : ApplyPatch(f)) \/ LogCall

SpecPatch == InitPatch /\ [][NextPatch]_vars

(***************************************************************************)
(* The properties.                                                         *)
(***************************************************************************)
\* the callback's promise has settled and no 'finish' event is still due
Settled(r) == pc[r] \in {"returned", "rejected"} /\ ~res[r].finishPending

LinesOf(r, kind) == { i \in 1..Len(rlog[r]) : rlog[r][i].kind = kind }

\* C1: every request that has run its course, on whatever path, has logged
\* exactly one completion line, and no request ever logs more than one.
C1_OneCompletionLine ==
    \A r \in Req :
        /\ Cardinality(LinesOf(r, "completion")) <= 1
        /\ Settled(r) => Cardinality(LinesOf(r, "completion")) = 1

\* C2: the wrapper writes its fallback (status 500, the fixed body) only to a
\* response of which nothing has been sent; after the handler has written, it
\* attempts no second write.
C2_NoSecondWrite ==
    \A r \in Req : res[r].fallbackOn \in {"none", "unsent"}

\* C3: a request without a url never reaches the handler, is answered with
\* status 500 and the body 'Internal Server Error', and logs exactly one error
\* line, which carries the 'No URL to process' error.
C3_NoUrl ==
    \A r \in Req :
        (req[r].url = "" /\ pc[r] # "idle") =>
            /\ handled[r] = 0
            /\ Settled(r) =>
                  /\ res[r].sentStatus = 500
                  /\ res[r].body = <<FallbackBody>>
                  /\ Cardinality(LinesOf(r, "errorPath")) = 1
                  /\ \A i \in LinesOf(r, "errorPath") : rlog[r][i].err = NoUrlError

\* C4 as claimed: the completion line is at level error exactly when the status
\* code is 400 or more, and at level debug otherwise.
C4_ErrorIffAtLeast400 ==
    \A r \in Req : \A i \in LinesOf(r, "completion") :
        rlog[r][i].level = (IF rlog[r][i].status >= 400 THEN "error" ELSE "debug")

\* C4 as amended: the completion line is at level error exactly when the status
\* code it reports is in 400..599, and at level debug otherwise.
C4_ErrorIff400To599 ==
    \A r \in Req : \A i \in LinesOf(r, "completion") :
        rlog[r][i].level = (IF rlog[r][i].status \in 400..599 THEN "error" ELSE "debug")

C4_Witness ==
    \E r \in Req : \E i \in LinesOf(r, "completion") :
        rlog[r][i].status = 600 /\ rlog[r][i].level = "debug"

\* C5: a failure of the handler stays inside the wrapper: the callback does not
\* reject, handling the failure raises no fault event (none that could end the
\* process), and the client has been answered with the 500 fallback.
C5_HandlerFailureContained ==
    \A r \in Req :
        caught[r] = "handler" =>
            /\ pc[r] # "rejected"
            /\ ~res[r].errorEmitted
            /\ pc[r] = "returned" =>
                  /\ res[r].sentStatus = 500
                  /\ res[r].body = <<FallbackBody>>

\* the telemetry sink failed for request r: reading the binding rejected the
\* callback, or setTransactionName threw
TelemetryFailed(r) == pc[r] = "rejected" \/ caught[r] = "telemetry"

\* C6: a failure of the telemetry sink (the binding read at line 119, or
\* setTransactionName) leaves request handling as it is: the handler is called
\* and the response is the handler's, neither the fallback nor none at all.
C6_TelemetryFailureHarmless ==
    \A r \in Req :
        TelemetryFailed(r) =>
            /\ pc[r] # "rejected"
            /\ res[r].fallbackOn = "none"
            /\ pc[r] = "returned" => handled[r] = 1

\* C7: with NEXT_MANUAL_SIG_HANDLE set no signal listener is registered and no
\* signal ends the process through process.exit; with it unset both signals
\* have a listener once the top-level code has run, and a signal ends the
\* process with status 0.
C7_SignalOptOut ==
    /\ env.manualSig => sigHandlers = {} /\ proc.by # "signalHandler"
    /\ ~env.manualSig =>
          /\ boot \notin {"patch", "faults", "signals"} => sigHandlers = Signals
          /\ proc.by # "signalDefault"
          /\ proc.by = "signalHandler" => proc.code = 0

C7_Witness ==
    /\ ~env.manualSig
    /\ proc = [state |-> "exited", code |-> 0, by |-> "signalHandler"]

\* C8: every fault event has logged exactly one error record of its type, and
\* no fault ends the process: the only exits are status 0 on a handled signal
\* and status 1 on a listen error (and a signal's own default action).
C8_FaultsLoggedNeverFatal ==
    /\ \A t \in FaultTypes : logged[t] = delivered[t]
    /\ proc.state = "exited" =>
          \/ proc.by = "signalHandler" /\ proc.code = 0
          \/ proc.by = "listenError" /\ proc.code = 1
          \/ proc.by = "signalDefault"

\* the 'Name: message' rendering of an error-like value, from its name and
\* message fields
NameOf(v) == IF v.cls = "Error" THEN v.name ELSE OwnValue(v.own, "name", 1)
MessageOf(v) == IF v.cls = "Error" THEN v.message ELSE OwnValue(v.own, "message", 1)
StringForm(v) == ErrorToString(NameOf(v), MessageOf(v))

\* C9: a call with one error-like argument hands the logger the one message
\* 'Name: message' of that argument, and its flattened form as the payload.
C9_SingleErrorArgument ==
    (passes > 0 /\ Len(call.args) = 1 /\ IsErrorEntry(call.args[1])) =>
        /\ out.state = "logged"
        /\ out.messages = << Str(StringForm(call.args[1])) >>
        /\ out.flattenedError = flattenData(call.args[1]).val

\* C10: a call with more than one argument hands the logger data.args, the
\* arguments in order with every object replaced by its JSON text and every
\* primitive as it is, and the arguments themselves as messages; a call with
\* at most one argument has no data.
C10_DataArgs ==
    passes > 0 =>
        IF Len(call.args) > 1
        THEN /\ out.state = "logged"
             /\ out.hasData
             /\ Len(out.dataArgs) = Len(call.args)
             /\ \A i \in 1..Len(call.args) :
                   /\ IsObject(call.args[i]) =>
                         /\ out.dataArgs[i].t = "string"
                         /\ out.dataArgs[i] = JsonStringify(call.args[i]).val
                   /\ ~IsObject(call.args[i]) => out.dataArgs[i] = call.args[i]
             /\ out.messages = call.args
        ELSE ~out.hasData

\* the call went through a wrapper the patch installed
ViaWrapper == out.state \in {"logged", "threw"}

\* C11 as claimed: once a facade has been patched twice, a call of one of its
\* patched entry points runs through the wrapper twice.
C11_DoubleWrapped ==
    (ViaWrapper /\ patchesAtCall >= 2) => passes = 2

\* C11 as amended: however often a facade has been patched, a patched slot
\* holds one wrapper over the logger's own function, and a call of it runs
\* through the wrapper once and hands the logger what it hands it after a
\* single patch.
C11_PatchTwiceSameAsOnce ==
    /\ \A f \in FacadeNames : \A n \in DOMAIN facade[f] :
          facade[f][n].kind = "wrapper" =>
              facade[f][n].wraps = 1 /\ facade[f][n].level = n
    /\ ViaWrapper =>
          /\ passes = 1
          /\ out = createLoggingFunction(call.entry, call.args)

C11_Witness ==
    /\ patchesAtCall = 2
    /\ passes = 1
    /\ out.state = "logged"

\* C12: a request has a completion line only once its response has ended and
\* emitted 'finish'; while the response has not finished there is none.
C12_CompletionAfterFinish ==
    \A r \in Req :
        LinesOf(r, "completion") # {} => res[r].finished /\ res[r].finishEmitted

C12_Witness ==
    \E r \in Req :
        /\ res[r].finishEmitted
        /\ Cardinality(LinesOf(r, "completion")) = 1
        /\ rlog[r][Len(rlog[r])].kind = "completion"

\* C13: a listen error is logged and ends the process with status 1, as the
\* last thing the process does; listen is called once; the readiness line is
\* logged only by the listen callback and never after a listen error.
C13_ListenErrorExits ==
    /\ \A i \in 1..Len(slog) :
          slog[i] = "listen error" =>
              /\ i = Len(slog)
              /\ proc = [state |-> "exited", code |-> 1, by |-> "listenError"]
    /\ proc.by = "listenError" =>
          /\ proc.state = "exited" /\ proc.code = 1
          /\ Count(slog, "listen error") = 1
          /\ Count(slog, "Ready on") = 0
    /\ installs["listen"] <= 1
    /\ Count(slog, "Ready on") > 0 =>
          boot = "listening" /\ Count(slog, "Ready on") = 1

C13_Witness ==
    /\ proc = [state |-> "exited", code |-> 1, by |-> "listenError"]
    /\ slog[Len(slog)] = "listen error"

\* C14: a request with a url has its handler called exactly once by the time
\* the callback has settled, never more, and only after the id and the start
\* time were taken, the 'finish' listener was registered and the route was
\* named to the telemetry sink.
C14_HandlerCalledOnce ==
    \A r \in Req :
        (req[r].url # "" /\ pc[r] # "idle") =>
            /\ handled[r] <= 1
            /\ handled[r] = 1 =>
                  /\ ctx[r].requestId # 0 /\ ctx[r].reqStart # 0
                  /\ res[r].listener
                  /\ ctx[r].route = req[r].url
            /\ pc[r] \in {"returned", "rejected"} => handled[r] = 1

\* C15: when the handler fails before the response has emitted 'finish', the
\* catch block logs exactly one error-path line, with the request's url and the
\* error; it logs no completion line of its own: the one completion line
\* follows the error-path line, once the response has finished.
C15_OneErrorLineThenCompletion ==
    \A r \in Req :
        (caught[r] = "handler" /\ res[r].fallbackOn \in {"unsent", "headersSent", "ended"}) =>
            /\ Cardinality(LinesOf(r, "errorPath")) = 1
            /\ \A i \in LinesOf(r, "errorPath") :
                  /\ rlog[r][i].url = req[r].url
                  /\ rlog[r][i].err = "handler"
                  /\ \A j \in LinesOf(r, "completion") : i < j
            /\ Cardinality(LinesOf(r, "completion")) <= 1
            /\ res[r].finishEmitted <=> Cardinality(LinesOf(r, "completion")) = 1
            /\ Settled(r) => res[r].finishEmitted

C15_Witness ==
    \E r \in Req :
        /\ caught[r] = "handler"
        /\ res[r].fallbackOn = "unsent"
        /\ Len(rlog[r]) = 2
        /\ rlog[r][1].kind = "errorPath"
        /\ rlog[r][2].kind = "completion"

\* C16: on both facades a slot that held no function before the patch (a
\* value that is not a function, or nothing) is as it was, and so is every
\* slot of console outside the five enumerated names.
C16_OnlyFunctionEntriesReplaced ==
    \A f \in FacadeNames : \A n \in DOMAIN facade[f] :
        /\ facade[f][n].orig \in {"missing", "value"} =>
              facade[f][n] = Slot(facade[f][n].orig)
        /\ (f = "console" /\ n \notin ConsoleEntries) =>
              facade[f][n] = Slot(facade[f][n].orig)

\* C17: a call of a patched entry point hands the logger exactly one record,
\* at the level named like the entry point when pino has that level and at
\* info otherwise.
C17_OneEmissionAtLevel ==
    ViaWrapper =>
        /\ out.state = "logged"
        /\ out.level = (IF call.entry \in PinoLevels THEN call.entry ELSE "info")

\* C18: nothing is installed twice; by the time listen has been called both
\* facades are patched and the fault listeners and (unless opted out) the
\* signal listeners are registered, each once; listen is called only once
\* prepare has resolved; after a rejected prepare the rejection is logged,
\* listen is never called, no request is taken, and the process is not ended
\* by the server's own exit on a listen error.
C18_StartupOrder ==
    /\ \A n \in InstallNames : installs[n] <= 1
    /\ (installs["listen"] = 1 \/ \E r \in Req : pc[r] # "idle") =>
          /\ installs["prepared"] = 1
          /\ \A n \in FacadeNames \cup FaultTypes : installs[n] = 1
          /\ \A n \in Signals : installs[n] = (IF env.manualSig THEN 0 ELSE 1)
          /\ faultHandlers = FaultTypes
          /\ \A n \in ConsoleEntries : facade.console[n].kind = "wrapper"
    /\ boot = "failed" =>
          /\ Count(slog, "prepare rejected") = 1
          /\ Count(slog, "Ready on") = 0
          /\ installs["listen"] = 0
          /\ \A r \in Req : pc[r] = "idle"
          /\ proc.by \in {"none", "signalHandler", "signalDefault", "runtime"}
    /\ boot = "listening" => Count(slog, "prepare rejected") = 0

C18_Witness ==
    /\ boot = "listening"
    /\ \A n \in FacadeNames \cup FaultTypes : installs[n] = 1
    /\ \E r \in Req : pc[r] # "idle"

\* C19: with requests in flight together, every completion line of a request
\* carries that request's own id, start time, method and url and the status
\* its response finished with; a request's id and start time are written by
\* its own callback only; and while requests are handled the facades are as
\* the one patch at startup left them.
C19_RequestsIsolated ==
    /\ \A r \in Req :
          /\ pc[r] = "idle" => ctx[r].requestId = 0 /\ rlog[r] = <<>>
          /\ pc[r] \notin {"idle", "l117"} =>
                ctx[r].requestId = r /\ ctx[r].reqStart = r
          /\ \A i \in LinesOf(r, "completion") :
                /\ rlog[r][i].id = r
                /\ rlog[r][i].start = r
                /\ rlog[r][i].method = req[r].method
                /\ rlog[r][i].url = req[r].url
                /\ rlog[r][i].status =
                      (IF res[r].fallbackOn = "finished" THEN res[r].sentStatus
                       ELSE res[r].statusCode)
    /\ (\E r \in Req : pc[r] # "idle") =>
          /\ facade = [f \in FacadeNames |-> Patched(f, DefaultFacades[f])]
          /\ \A f \in FacadeNames : installs[f] = 1

C19_Witness ==
    \E q \in Req, r \in Req :
        /\ q < r
        /\ pc[q] = "handling"
        /\ LinesOf(r, "completion") # {}
        /\ req[q].url # req[r].url

\* C20: the status a completion line reports is the status the client was sent
\* for that request, also when the handler failed after the headers had gone
\* out.
C20_LoggedStatusIsSentStatus ==
    \A r \in Req : \A i \in LinesOf(r, "completion") :
        rlog[r][i].status = res[r].sentStatus

=============================================================================
